---- MODULE Spec2Model ----
(***************************************************************************)
(* Model of app.py of AxiOnt: the ontology viewer's pure core.             *)
(*   infer_type, get_label, get_comment, type_color, build_network,        *)
(*   serialize_subset and the part of the page script that filters the     *)
(*   node table and builds the graph view.                                 *)
(*                                                                         *)
(* An RDF term is a record [kind, val, lang]: kind is "uri" or "lit",      *)
(* val is the term's text as a sequence of tokens (the separators "#" and  *)
(* "/" are tokens of their own, so that split('#') and rsplit('/') are     *)
(* computed and not assumed), lang is the language tag ("" for none).      *)
(* A graph g is the sequence of its distinct triples in store order.       *)
(***************************************************************************)
EXTENDS Integers, Sequences, FiniteSets, TLC

VARIABLES g, hashseed, ret, net, page, subg

vars == <<g, hashseed, ret, net, page, subg>>

-----------------------------------------------------------------------------
(* Bounds of the model. *)

MaxTriples == 3
MaxLabels == 3
MaxUriLen == 2
MaxCap == 3

-----------------------------------------------------------------------------
(* Terms. *)

URIRef(v) == [kind |-> "uri", val |-> v, lang |-> ""]

Literal(v, l) == [kind |-> "lit", val |-> v, lang |-> l]

isURIRef(t) == t.kind = "uri"

isLiteral(t) == t.kind = "lit"

\* str(term): the text of the term.
str(t) == t.val

\* Python truth value of a term: URIRef is a str, a plain Literal is its text.
Truthy(t) == t.val # <<>>

RDF_NS == <<"http:", "/", "/", "www.w3.org", "/", "1999", "/", "02", "/", "22-rdf-syntax-ns", "#">>

RDFS_NS == <<"http:", "/", "/", "www.w3.org", "/", "2000", "/", "01", "/", "rdf-schema", "#">>

OWL_NS == <<"http:", "/", "/", "www.w3.org", "/", "2002", "/", "07", "/", "owl", "#">>

EX_NS == <<"http:", "/", "/", "example.org", "/", "axiology", "#">>

RDF_type == URIRef(RDF_NS \o <<"type">>)

RDF_Property == URIRef(RDF_NS \o <<"Property">>)

RDFS_label == URIRef(RDFS_NS \o <<"label">>)

RDFS_comment == URIRef(RDFS_NS \o <<"comment">>)

RDFS_Class == URIRef(RDFS_NS \o <<"Class">>)

OWL_Class == URIRef(OWL_NS \o <<"Class">>)

OWL_ObjectProperty == URIRef(OWL_NS \o <<"ObjectProperty">>)

OWL_DatatypeProperty == URIRef(OWL_NS \o <<"DatatypeProperty">>)

hasDescription == URIRef(EX_NS \o <<"hasDescription">>)

-----------------------------------------------------------------------------
(* Graph access (rdflib Graph as the code uses it). *)

Range(q) == {q[i] : i \in 1..Len(q)}

\* for s, p, o in g
Triples(gr) == Range(gr)

\* (s, p, o) in g
Contains(gr, s, p, o) == [s |-> s, p |-> p, o |-> o] \in Triples(gr)

\* list(g.objects(node, pred)): the objects in store order.
RECURSIVE objects(_, _, _)
objects(gr, node, pred) ==
    IF gr = <<>> THEN <<>>
    ELSE LET t == Head(gr)
             rest == objects(Tail(gr), node, pred)
         IN IF t.s = node /\ t.p = pred THEN <<t.o>> \o rest ELSE rest

\* set(g.subjects())
subjects(gr) == {t.s : t \in Triples(gr)}

\* set(g.objects())
all_objects(gr) == {t.o : t \in Triples(gr)}

-----------------------------------------------------------------------------
(* infer_type *)

TypeTags == {"Class", "NamedIndividual", "ObjectProperty", "DatatypeProperty", "Property", "Other"}

\* Variant: the individual rule dropped, so that typed instances fall through.
infer_type_no_individual(gr, node) ==
    LET types == Range(objects(gr, node, RDF_type))
    IN IF OWL_Class \in types \/ RDFS_Class \in types THEN "Class"
       ELSE IF Contains(gr, node, RDF_type, RDF_Property)
               \/ Contains(gr, node, RDF_type, OWL_ObjectProperty)
               \/ Contains(gr, node, RDF_type, OWL_DatatypeProperty)
            THEN IF Contains(gr, node, RDF_type, OWL_ObjectProperty) THEN "ObjectProperty"
                 ELSE IF Contains(gr, node, RDF_type, OWL_DatatypeProperty) THEN "DatatypeProperty"
                 ELSE "Property"
       ELSE "Other"

\* Variant: the individual rule tried before the class rule.
infer_type_individual_first(gr, node) ==
    LET types == Range(objects(gr, node, RDF_type))
    IN IF \E t \in types : t \notin {OWL_Class, RDFS_Class} /\ Truthy(t) THEN "NamedIndividual"
       ELSE IF OWL_Class \in types \/ RDFS_Class \in types THEN "Class"
       ELSE "Other"

\* Variant: usage as a class (object of rdf:type) or as a predicate taken for a declaration.
infer_type_by_usage(gr, node) ==
    LET types == Range(objects(gr, node, RDF_type))
    IN IF OWL_Class \in types \/ RDFS_Class \in types THEN "Class"
       ELSE IF \E t \in types : t \notin {OWL_Class, RDFS_Class} /\ Truthy(t) THEN "NamedIndividual"
       ELSE IF \E t \in Triples(gr) : t.p = RDF_type /\ t.o = node THEN "Class"
       ELSE IF \E t \in Triples(gr) : t.p = node THEN "Property"
       ELSE "Other"

infer_type(gr, node) ==
    LET types == Range(objects(gr, node, RDF_type))
    IN IF OWL_Class \in types \/ URIRef(OWL_NS \o <<"Class">>) \in types \/ RDFS_Class \in types
       THEN "Class"
       ELSE IF \E t \in types : t \notin {OWL_Class, RDFS_Class} /\ Truthy(t)
       THEN "NamedIndividual"
       ELSE IF Contains(gr, node, RDF_type, RDF_Property)
               \/ Contains(gr, node, RDF_type, OWL_ObjectProperty)
               \/ Contains(gr, node, RDF_type, OWL_DatatypeProperty)
       THEN IF Contains(gr, node, RDF_type, OWL_ObjectProperty) THEN "ObjectProperty"
            ELSE IF Contains(gr, node, RDF_type, OWL_DatatypeProperty) THEN "DatatypeProperty"
            ELSE "Property"
       ELSE "Other"

-----------------------------------------------------------------------------
(* get_label, get_comment *)

\* v.split(sep)[-1] and v.rsplit(sep, 1)[-1]: the text after the last sep,
\* the whole text when sep does not occur.
RECURSIVE AfterLast(_, _)
AfterLast(v, sep) ==
    IF v = <<>> THEN <<>>
    ELSE IF v[Len(v)] = sep THEN <<>>
    ELSE Append(AfterLast(SubSeq(v, 1, Len(v) - 1), sep), v[Len(v)])

\* for lb in labels: if isinstance(lb, Literal) and lb.language == 'ru': return str(lb)
\* then return str(labels[0]).
RECURSIVE PreferRu(_, _)
PreferRu(values, rest) ==
    IF rest = <<>> THEN str(values[1])
    ELSE IF isLiteral(Head(rest)) /\ Head(rest).lang = "ru" THEN str(Head(rest))
    ELSE PreferRu(values, Tail(rest))

\* Variant: the language scan left out, the first label is returned whatever its language.
get_label_first(gr, node) ==
    LET labels == objects(gr, node, RDFS_label)
    IN IF labels # <<>> THEN str(labels[1])
       ELSE IF isURIRef(node)
       THEN IF "#" \in Range(node.val) THEN AfterLast(node.val, "#")
            ELSE AfterLast(node.val, "/")
       ELSE str(node)

get_label(gr, node) ==
    LET labels == objects(gr, node, RDFS_label)
    IN IF labels # <<>> THEN PreferRu(labels, labels)
       ELSE IF isURIRef(node)
       THEN IF "#" \in Range(node.val) THEN AfterLast(node.val, "#")
            ELSE AfterLast(node.val, "/")
       ELSE str(node)

get_comment(gr, node) ==
    LET first == objects(gr, node, RDFS_comment)
        comments == IF first = <<>> THEN objects(gr, node, hasDescription) ELSE first
    IN IF comments # <<>> THEN PreferRu(comments, comments) ELSE <<>>

-----------------------------------------------------------------------------
(* type_color, build_network, serialize_subset *)

type_color(ntype) ==
    CASE ntype = "Class" -> "#2b8cbe"
      [] ntype = "NamedIndividual" -> "#7b3294"
      [] ntype = "ObjectProperty" -> "#d95f02"
      [] ntype = "DatatypeProperty" -> "#1b9e77"
      [] ntype = "Property" -> "#e7298a"
      [] OTHER -> "#999999"

\* Iteration over a Python set of terms: the order is that of the terms' hash
\* slots, which the interpreter's string-hash seed fixes for one process. seed
\* is the sequence of the URIs in slot order.
set_order(seed, S) == SelectSeq(seed, LAMBDA x : x \in S)

\* The keys of node_info in insertion order: URI subjects, then the URI
\* objects not yet present.
node_info_keys(gr, seed) ==
    LET subj == {x \in subjects(gr) : isURIRef(x)}
        obj == {x \in all_objects(gr) : isURIRef(x) /\ x \notin subj}
    IN set_order(seed, subj) \o set_order(seed, obj)

\* Variant: the cap off by one.
node_items_one_more(keys, max_nodes) ==
    SubSeq(keys, 1, IF max_nodes + 1 < Len(keys) THEN max_nodes + 1 ELSE Len(keys))

\* list(node_info.items())[:max_nodes], max_nodes >= 0
node_items(keys, max_nodes) ==
    SubSeq(keys, 1, IF max_nodes < Len(keys) THEN max_nodes ELSE Len(keys))

\* The arguments of one net.add_node call.
add_node(gr, node, selected_node) ==
    LET label == get_label(gr, node)
        ntype == infer_type(gr, node)
    IN [id |-> str(node),
        label |-> label,
        title |-> <<label, <<ntype>>, get_comment(gr, node)>>,
        color |-> type_color(ntype),
        size |-> IF str(node) = selected_node THEN 18 ELSE 12]

\* The triples for which net.add_edge is called, as its arguments.
add_edges(gr, keys) ==
    {[from |-> str(t.s), to |-> str(t.o),
      label |-> IF isURIRef(t.p) THEN get_label(gr, t.p) ELSE str(t.p)] :
        t \in {x \in Triples(gr) : /\ isURIRef(x.s) /\ isURIRef(x.o)
                                   /\ x.s \in Range(keys) /\ x.o \in Range(keys)}}

\* selected_node is the text of the selected URI, <<"None">> when none is.
build_network(gr, selected_node, max_nodes, seed) ==
    LET keys == node_info_keys(gr, seed)
        items == node_items(keys, max_nodes)
    IN [built |-> TRUE,
        max_nodes |-> max_nodes,
        selected |-> selected_node,
        nodes |-> [i \in 1..Len(items) |-> add_node(gr, items[i], selected_node)],
        edges |-> add_edges(gr, keys)]

\* Variant: only triples with both ends selected are copied.
subset_both_ends(gr, nodes_subset) ==
    SelectSeq(gr, LAMBDA t : t.s \in nodes_subset /\ t.o \in nodes_subset)

\* The triples added to subg, in the order they are added.
serialize_subset(gr, nodes_subset) ==
    SelectSeq(gr, LAMBDA t : t.s \in nodes_subset \/ t.o \in nodes_subset)

-----------------------------------------------------------------------------
(* The page script: node table, filters, selection, graph view. *)

SliderMin == 100

SliderMax == 3000

\* g.qname(uri), str(uri) when the URI has no local part to split off. The
\* prefix is the one bound to the namespace (ns1 for a namespace bound by none).
qname_safe(uri) ==
    LET v == uri.val
        local == IF "#" \in Range(v) THEN AfterLast(v, "#") ELSE AfterLast(v, "/")
        ns == SubSeq(v, 1, Len(v) - Len(local))
        prefix == CASE ns = RDF_NS -> "rdf"
                    [] ns = RDFS_NS -> "rdfs"
                    [] ns = OWL_NS -> "owl"
                    [] OTHER -> "ns1"
    IN IF local = <<>> \/ ns = <<>> THEN str(uri) ELSE <<prefix, ":">> \o local

\* Series.str.contains(query): query occurs in text (token-wise).
str_contains(text, query) ==
    \E i \in 1..(Len(text) + 1) :
        /\ i + Len(query) - 1 <= Len(text)
        /\ SubSeq(text, i, i + Len(query) - 1) = query

\* all_nodes: the URI subjects and objects.
all_nodes(gr) == {x \in subjects(gr) \cup all_objects(gr) : isURIRef(x)}

\* df_nodes: one row per node of all_nodes, in the set's iteration order.
df_nodes(gr, seed) ==
    LET order == set_order(seed, all_nodes(gr))
    IN [i \in 1..Len(order) |->
          [uri |-> str(order[i]),
           qname |-> qname_safe(order[i]),
           label |-> get_label(gr, order[i]),
           comment |-> get_comment(gr, order[i]),
           type |-> infer_type(gr, order[i])]]

\* df_nodes[mask]
df_nodes_filtered(gr, seed, search_query, typ_filters) ==
    SelectSeq(df_nodes(gr, seed),
              LAMBDA row :
                  /\ search_query # <<>> =>
                        \/ str_contains(row.label, search_query)
                        \/ str_contains(row.comment, search_query)
                        \/ str_contains(row.uri, search_query)
                        \/ str_contains(row.qname, search_query)
                  /\ row.type \in typ_filters)

\* options=[""] + df_nodes_filtered['label'].tolist()
sel_options(filtered) == {<<>>} \cup {filtered[i].label : i \in 1..Len(filtered)}

\* The uri of the first filtered row labelled sel_option, None when nothing is selected.
selected_uri(filtered, sel_option) ==
    IF filtered = <<>> \/ sel_option = <<>> THEN <<"None">>
    ELSE SelectSeq(filtered, LAMBDA row : row.label = sel_option)[1].uri

-----------------------------------------------------------------------------
(* Bounded graphs: the triples of a universe U (a sequence), kept in          *)
(* universe order (Chosen) or in any store order (Ordered).                   *)

\* The index sequences of length <= k over 1..N without repetition, in
\* increasing order only (inc) or in any order.
RECURSIVE IndexSeqs(_, _, _)
IndexSeqs(k, N, inc) ==
    IF k = 0 THEN {<<>>}
    ELSE LET prev == IndexSeqs(k - 1, N, inc)
         IN prev \cup
            UNION {{Append(q, i) : i \in {j \in 1..N :
                                             IF inc THEN (q = <<>> \/ j > q[Len(q)])
                                             ELSE \A m \in 1..Len(q) : q[m] # j}}
                   : q \in {r \in prev : Len(r) = k - 1}}

Pick(U, q) == [i \in 1..Len(q) |-> U[q[i]]]

\* Graphs of at most n triples of U, stored in universe order.
Chosen(U, n) == {Pick(U, q) : q \in IndexSeqs(n, Len(U), TRUE)}

\* Graphs of at most n triples of U, stored in any order.
Ordered(U, n) == {Pick(U, q) : q \in IndexSeqs(n, Len(U), FALSE)}

\* The triples s p o for s, p, o drawn from three sequences of terms.
Product(S, P, O) ==
    [i \in 1..(Len(S) * Len(P) * Len(O)) |->
        [s |-> S[((i - 1) \div (Len(P) * Len(O))) + 1],
         p |-> P[(((i - 1) \div Len(O)) % Len(P)) + 1],
         o |-> O[((i - 1) % Len(O)) + 1]]]

NoRet == [op |-> "none", arg |-> URIRef(<<>>), value |-> <<>>]

NoNet == [built |-> FALSE, max_nodes |-> 0, selected |-> <<>>, nodes |-> <<>>, edges |-> {}]

NoPage == [run |-> FALSE, typ_filters |-> {}, search_query |-> <<>>, df_nodes |-> <<>>,
           df_nodes_filtered |-> <<>>, selected_uri |-> <<>>]

-----------------------------------------------------------------------------
(* Classification: infer_type called on the nodes of a parsed graph. *)

A == URIRef(EX_NS \o <<"A">>)

B == URIRef(EX_NS \o <<"B">>)

C == URIRef(EX_NS \o <<"C">>)

relatesTo == URIRef(EX_NS \o <<"relatesTo">>)

EmptyLit == Literal(<<>>, "")

ClassifyUniverse ==
    Product(<<A, B>>, <<RDF_type, A>>,
            <<OWL_Class, RDFS_Class, RDF_Property, OWL_ObjectProperty,
              OWL_DatatypeProperty, A, B, EmptyLit>>)

ClassifyNodes == {A, B, C}

InitClassify ==
    /\ g \in Chosen(ClassifyUniverse, MaxTriples)
    /\ hashseed = <<>>
    /\ ret = NoRet
    /\ net = NoNet
    /\ page = NoPage
    /\ subg = <<>>

InferType(node) ==
    /\ ret' = [op |-> "infer_type", arg |-> node, value |-> <<infer_type(g, node)>>]
    /\ UNCHANGED <<g, hashseed, net, page, subg>>

NextClassify == \E node \in ClassifyNodes : InferType(node)

SpecClassify == InitClassify /\ [][NextClassify]_vars

-----------------------------------------------------------------------------
(* Claims on infer_type, checked under SpecClassify. *)

ClassMarkers == {OWL_Class, RDFS_Class}

PropertyMarkers == {RDF_Property, OWL_ObjectProperty, OWL_DatatypeProperty}

Inferred == ret.op = "infer_type"

HasType(node, t) == Contains(g, node, RDF_type, t)

HasClassMarker(node) == \E m \in ClassMarkers : HasType(node, m)

\* C5: a node with an rdf:type triple to a class marker is classified Class,
\* whatever other rdf:type triples it has.
C5_ClassWins ==
    (Inferred /\ HasClassMarker(ret.arg)) => ret.value = <<"Class">>

\* infer_type has answered for a node typed by a class marker, a property
\* marker and a non-marker at once.
C5_Witness ==
    /\ Inferred
    /\ HasClassMarker(ret.arg)
    /\ \E m \in PropertyMarkers : HasType(ret.arg, m)
    /\ \E t \in {A, B} : HasType(ret.arg, t)
    /\ ret.value = <<"Class">>

\* C6: a node without a class marker whose rdf:type points to a property
\* marker is classified ObjectProperty, DatatypeProperty or Property by marker.
C6_PropertyTags ==
    (Inferred /\ ~HasClassMarker(ret.arg)) =>
        /\ HasType(ret.arg, OWL_ObjectProperty) => ret.value = <<"ObjectProperty">>
        /\ (HasType(ret.arg, OWL_DatatypeProperty) /\ ~HasType(ret.arg, OWL_ObjectProperty))
              => ret.value = <<"DatatypeProperty">>
        /\ (HasType(ret.arg, RDF_Property) /\ ~HasType(ret.arg, OWL_ObjectProperty)
              /\ ~HasType(ret.arg, OWL_DatatypeProperty))
              => ret.value = <<"Property">>

\* The node is typed by something that is itself classified Class.
TypedByClass(node) == \E t \in Triples(g) : t.s = node /\ t.p = RDF_type /\ infer_type(g, t.o) = "Class"

\* C7 as stated: a node typed by something classified Class is a
\* NamedIndividual for every combination of further rdf:type triples.
C7_Original ==
    (Inferred /\ TypedByClass(ret.arg)) => ret.value = <<"NamedIndividual">>

\* C7 amended: a node typed by something classified Class is a NamedIndividual
\* unless it also has a class-marker type, and then it is Class; never Other.
C7_InstanceOfClass ==
    (Inferred /\ TypedByClass(ret.arg)) =>
        ret.value = IF HasClassMarker(ret.arg) THEN <<"Class">> ELSE <<"NamedIndividual">>

\* infer_type has answered NamedIndividual for an instance of a declared class
\* that also carries a property marker.
C7_Witness ==
    /\ Inferred
    /\ TypedByClass(ret.arg)
    /\ ~HasClassMarker(ret.arg)
    /\ \E m \in PropertyMarkers : HasType(ret.arg, m)
    /\ ret.value = <<"NamedIndividual">>

\* C8: a node that is the subject of no rdf:type triple is Other, also when it
\* is used as a class or as a predicate; every answer is one tag of the enumeration.
C8_UntypedIsOther ==
    Inferred =>
        /\ Len(ret.value) = 1 /\ ret.value[1] \in TypeTags
        /\ (\A t \in Triples(g) : ~(t.s = ret.arg /\ t.p = RDF_type)) => ret.value = <<"Other">>

\* infer_type has answered Other for an untyped node used as the object of an
\* rdf:type triple and as a predicate.
C8_Witness ==
    /\ Inferred
    /\ \A t \in Triples(g) : ~(t.s = ret.arg /\ t.p = RDF_type)
    /\ \E t \in Triples(g) : t.p = RDF_type /\ t.o = ret.arg
    /\ \E t \in Triples(g) : t.p = ret.arg
    /\ ret.value = <<"Other">>

-----------------------------------------------------------------------------
(* Label resolution: get_label called on nodes of a parsed graph whose       *)
(* label values are stored in any order.                                     *)

Label_ru == Literal(<<"Primer">>, "ru")

Label_ru2 == Literal(<<"Politika">>, "ru")

Label_en == Literal(<<"Example">>, "en")

Label_plain == Literal(<<"A", "/", "plain">>, "")

LabelUniverse ==
    Product(<<A>>, <<RDFS_label>>, <<Label_ru, Label_en, Label_plain, C>>)
        \o Product(<<A>>, <<RDFS_comment>>, <<Label_ru2>>)
        \o Product(<<B>>, <<RDFS_label>>, <<Label_ru2>>)

Alphabet == {"#", "/", "x"}

\* The token sequences over Alphabet of length 1..n.
RECURSIVE Texts(_)
Texts(n) ==
    IF n = 0 THEN {}
    ELSE LET shorter == Texts(n - 1)
         IN shorter \cup {<<c>> : c \in Alphabet}
                    \cup {Append(v, c) : v \in shorter, c \in Alphabet}

LabelNodes ==
    {A, B, Literal(<<"x", "#", "x">>, "")} \cup {URIRef(v) : v \in Texts(MaxUriLen)}

InitLabel ==
    /\ g \in Ordered(LabelUniverse, MaxLabels)
    /\ hashseed = <<>>
    /\ ret = NoRet
    /\ net = NoNet
    /\ page = NoPage
    /\ subg = <<>>

GetLabel(node) ==
    /\ ret' = [op |-> "get_label", arg |-> node, value |-> get_label(g, node)]
    /\ UNCHANGED <<g, hashseed, net, page, subg>>

NextLabel == \E node \in LabelNodes : GetLabel(node)

SpecLabel == InitLabel /\ [][NextLabel]_vars

IsRu(lb) == isLiteral(lb) /\ lb.lang = "ru"

\* value is the part of v after the last sep, sep occurring in v.
IsAfterLast(value, v, sep) ==
    \E k \in 1..Len(v) :
        /\ v[k] = sep
        /\ value = SubSeq(v, k + 1, Len(v))
        /\ sep \notin Range(value)

LabelChain(r) ==
    LET labels == objects(g, r.arg, RDFS_label)
        v == r.arg.val
    IN IF \E i \in 1..Len(labels) : IsRu(labels[i])
       THEN \E i \in 1..Len(labels) : IsRu(labels[i]) /\ r.value = labels[i].val
       ELSE IF labels # <<>> THEN r.value = labels[1].val
       ELSE IF ~isURIRef(r.arg) THEN r.value = v
       ELSE IF "#" \in Range(v) THEN IsAfterLast(r.value, v, "#")
       ELSE IF "/" \in Range(v) THEN IsAfterLast(r.value, v, "/")
       ELSE r.value = v

\* C9: get_label returns a label literal tagged 'ru' when one exists at any
\* position, else the first label value in store order, else for a URI the text
\* after the last '#', else after the last '/', else the whole identifier; a
\* repeated call on the unchanged graph returns the identical string.
C9_LabelFallbackChain ==
    /\ [](ret.op = "get_label" => LabelChain(ret))
    /\ [][(ret.op = "get_label" /\ ret'.op = "get_label" /\ ret'.arg = ret.arg /\ g' = g)
            => ret'.value = ret.value]_vars

\* get_label has returned a 'ru' label that is stored after two labels of
\* other languages.
C9_Witness ==
    LET labels == objects(g, ret.arg, RDFS_label)
    IN /\ ret.op = "get_label"
       /\ Len(labels) = 3
       /\ ~IsRu(labels[1]) /\ ~IsRu(labels[2]) /\ IsRu(labels[3])
       /\ ret.value = labels[3].val

-----------------------------------------------------------------------------
(* The graph view: build_network called on a parsed graph with any cap.      *)

RECURSIVE Perms(_)
Perms(S) ==
    IF S = {} THEN {<<>>}
    ELSE UNION {{<<x>> \o q : q \in Perms(S \ {x})} : x \in S}

ViewUniverse == Product(<<A, B>>, <<RDF_type, relatesTo>>, <<B, C, Label_ru>>)

ViewUris == {A, B, C}

None == <<"None">>

InitView ==
    /\ g \in Chosen(ViewUniverse, MaxTriples)
    /\ hashseed \in Perms(ViewUris)
    /\ ret = NoRet
    /\ net = NoNet
    /\ page = NoPage
    /\ subg = <<>>

BuildNetwork(selected_node, max_nodes) ==
    /\ net' = build_network(g, selected_node, max_nodes, hashseed)
    /\ UNCHANGED <<g, hashseed, ret, page, subg>>

\* The script is started in a new interpreter on the same document: the
\* string-hash seed, and with it the iteration order of sets, is drawn anew.
Relaunch ==
    /\ hashseed' \in Perms(ViewUris)
    /\ UNCHANGED <<g, ret, net, page, subg>>

NextView ==
    \/ \E selected_node \in {None, str(A)}, max_nodes \in 0..MaxCap :
          BuildNetwork(selected_node, max_nodes)
    \/ Relaunch

SpecView == InitView /\ [][NextView]_vars

NodeIds(n) == {n.nodes[i].id : i \in 1..Len(n.nodes)}

UriNodesOf(gr) == {x \in subjects(gr) \cup all_objects(gr) : isURIRef(x)}

\* C1: every edge of the view has a source and a target that are URI nodes
\* among the nodes added to the view after the cap.
C1_EdgesWithinCappedNodes ==
    net.built =>
        \A e \in net.edges :
            /\ e.from \in NodeIds(net) /\ e.to \in NodeIds(net)
            /\ e.from \in {str(x) : x \in UriNodesOf(g)}
            /\ e.to \in {str(x) : x \in UriNodesOf(g)}

\* C2: the view holds at most max_nodes nodes and no URI node twice, however
\* many triples reference it.
C2_NodeCapAndDedup ==
    net.built =>
        /\ Len(net.nodes) <= net.max_nodes
        /\ \A i, j \in 1..Len(net.nodes) : net.nodes[i].id = net.nodes[j].id => i = j
        /\ NodeIds(net) \subseteq {str(x) : x \in UriNodesOf(g)}

\* A view cut by the cap that holds a node which three triples reference.
C2_Witness ==
    /\ net.built
    /\ net.max_nodes > 0
    /\ Cardinality(UriNodesOf(g)) > net.max_nodes
    /\ Len(net.nodes) = net.max_nodes
    /\ \E x \in UriNodesOf(g) :
          /\ str(x) \in NodeIds(net)
          /\ Cardinality({t \in Triples(g) : t.s = x \/ t.o = x}) = 3

\* C3: two builds over the same triple set with the same max_nodes keep the
\* identical node set.
C3_SameKeptNodes ==
    [][(net.built /\ net'.built /\ net'.max_nodes = net.max_nodes /\ g' = g)
         => NodeIds(net') = NodeIds(net)]_vars

-----------------------------------------------------------------------------
(* Export: serialize_subset called on a parsed graph with any selection.     *)

ExportSelections == SUBSET {A, B, C, relatesTo}

InitExport ==
    /\ g \in Chosen(ViewUniverse, MaxTriples)
    /\ hashseed = <<>>
    /\ ret = NoRet
    /\ net = NoNet
    /\ page = NoPage
    /\ subg = <<>>

SerializeSubset(nodes_subset) ==
    /\ subg' = serialize_subset(g, nodes_subset)
    /\ ret' = [op |-> "serialize_subset", arg |-> nodes_subset, value |-> <<>>]
    /\ UNCHANGED <<g, hashseed, net, page>>

NextExport == \E nodes_subset \in ExportSelections : SerializeSubset(nodes_subset)

SpecExport == InitExport /\ [][NextExport]_vars

Touches(t, sel) == t.s \in sel \/ t.o \in sel

\* C10: the triples serialize_subset extracts are exactly the stored triples
\* whose subject or object is selected: each of them whatever its predicate,
\* none that only its predicate links to the selection; the graph is unchanged.
C10_InducedSubgraph ==
    /\ [](ret.op = "serialize_subset" =>
            /\ \A t \in Triples(g) : Touches(t, ret.arg) => t \in Range(subg)
            /\ \A t \in Range(subg) : t \in Triples(g) /\ Touches(t, ret.arg))
    /\ [][g' = g]_vars

\* An export that kept a triple whose predicate is not selected and left out
\* one whose predicate alone is selected.
C10_Witness ==
    /\ ret.op = "serialize_subset"
    /\ \E t \in Range(subg) : t.p \notin ret.arg
    /\ \E t \in Triples(g) : t.p \in ret.arg /\ ~Touches(t, ret.arg) /\ t \notin Range(subg)

-----------------------------------------------------------------------------
(* The page: one run of the script on the parsed document with the sidebar's *)
(* inputs.                                                                   *)

AppUniverse ==
    Product(<<A, B>>, <<RDF_type>>, <<B, OWL_Class>>)
        \o Product(<<A>>, <<RDFS_label>>, <<Label_ru>>)

AppUris == {A, B, OWL_Class}

\* The multiselect's default (all six types) and two narrower choices.
TypFilterChoices == {TypeTags, {"NamedIndividual"}, {}}

SearchQueries == {<<>>, <<"B">>}

InitApp ==
    /\ g \in Chosen(AppUniverse, MaxTriples)
    /\ hashseed \in Perms(AppUris)
    /\ ret = NoRet
    /\ net = NoNet
    /\ page = NoPage
    /\ subg = <<>>

AppRun(max_nodes, search_query, typ_filters, sel_option) ==
    LET filtered == df_nodes_filtered(g, hashseed, search_query, typ_filters)
        selected == selected_uri(filtered, sel_option)
    IN /\ sel_option \in sel_options(filtered)
       /\ page' = [run |-> TRUE, typ_filters |-> typ_filters, search_query |-> search_query,
                   df_nodes |-> df_nodes(g, hashseed), df_nodes_filtered |-> filtered,
                   selected_uri |-> selected]
       /\ net' = build_network(g, selected, max_nodes, hashseed)
       /\ UNCHANGED <<g, hashseed, ret, subg>>

NextApp ==
    \E max_nodes \in {SliderMin, SliderMax}, search_query \in SearchQueries,
       typ_filters \in TypFilterChoices, sel_option \in {<<>>, Label_ru.val, <<"B">>} :
        AppRun(max_nodes, search_query, typ_filters, sel_option)

SpecApp == InitApp /\ [][NextApp]_vars

CategoryTags == {"Class", "ObjectProperty", "DatatypeProperty", "Property", "NamedIndividual"}

\* C4: every node of the graph view has a TypeTag of the class, property or
\* individual category and, when the user's type filter is not empty, a type
\* the filter holds: the type filter restricts the graph view too.
C4_ViewNodesPassTypeFilter ==
    page.run =>
        \A i \in 1..Len(net.nodes) :
            LET ntype == net.nodes[i].title[2][1]
            IN /\ ntype \in CategoryTags
               /\ page.typ_filters # {} => ntype \in page.typ_filters

====
